---- MODULE Spec2Model ----
(***************************************************************************)
(* Model of src/src/main.py (class GUI of the speeds and feeds calculator). *)
(*                                                                         *)
(* GUI.update and the signal handlers of GUI are translated statement by   *)
(* statement.  Qt delivers signals synchronously on one thread, so each    *)
(* handler is one atomic action; a signal emitted inside a handler (Kc's   *)
(* valueChanged inside on_material_changed) runs update nested, inside the *)
(* same action.  The collaborators whose code is not part of main.py (the  *)
(* engine FeedsAndSpeeds, validate_machining_parameters, the widget boxes  *)
(* and the lookup tables) are modelled from the specification document.    *)
(*                                                                         *)
(* Numbers are integers: lengths in mm, feed per tooth in micrometres      *)
(* (metric) or in 1e-5 inch (imperial), surface speed in m/min or ft/min,  *)
(* rpm in whole revolutions per minute.                                    *)
(***************************************************************************)
EXTENDS Integers, Sequences, FiniteSets, TLC

VARIABLES tool_box, cutting_box, material_box, machine_box, results_box,
          engines, runs, nEvents, c_in, c_res

vars == <<tool_box, cutting_box, material_box, machine_box, results_box,
          engines, runs, nEvents, c_in, c_res>>

guiVars == <<tool_box, cutting_box, material_box, machine_box, results_box,
             engines, runs, nEvents>>

clsVars == <<c_in, c_res>>

(***************************************************************************)
(* Bounds and small helpers                                                *)
(***************************************************************************)
\* number of user interactions (signals delivered by Qt) that are explored
MaxEvents == 4

Abs(x) == IF x < 0 THEN -x ELSE x

Min2(a, b) == IF a < b THEN a ELSE b

\* a / b rounded to the nearest integer (a >= 0, b > 0)
RoundDiv(a, b) == (2 * a + b) \div (2 * b)

RECURSIVE FloorPow2(_)
\* the largest power of two that is <= n (n >= 1)
FloorPow2(n) == IF n < 2 THEN 1 ELSE 2 * FloorPow2(n \div 2)

RECURSIVE ISqrtFrom(_, _)
ISqrtFrom(n, r) == IF (r + 1) * (r + 1) > n THEN r ELSE ISqrtFrom(n, r + 1)

\* floor of the square root
ISqrt(n) == ISqrtFrom(n, 0)

(***************************************************************************)
(* GUI.get_rpm_status (main.py 139-162)                                    *)
(*                                                                         *)
(* rpm and the three limits are integer valued.  The thresholds are IEEE   *)
(* double products.  preferred_rpm * 0.1 and max_rpm * 0.9 are never below *)
(* the exact tenth / nine tenths and never reach the next integer, so for  *)
(* integer rpm the comparisons "<=" and ">" agree with exact arithmetic.   *)
(* min_rpm * 1.1 is different: the double 1.1 is 1.1 + 0.4 * 2^-52, and    *)
(* when min_rpm = 10k the product 11k + 4k * 2^-52 is rounded to the       *)
(* double above 11k exactly when 4k * 2^-52 exceeds half an ulp of 11k,    *)
(* that is when 8k > FloorPow2(11k).  Then "rpm < min_rpm * 1.1" is true   *)
(* for rpm = 11k.                                                          *)
(***************************************************************************)
NoLimit == -1

\* min_rpm * 1.1 as a double is strictly above the real number 1.1*min_rpm
Mul1_1RoundsUp(min_rpm) ==
    /\ min_rpm > 0
    /\ min_rpm % 10 = 0
    /\ 8 * (min_rpm \div 10) > FloorPow2(11 * (min_rpm \div 10))

\* rpm < min_rpm * 1.1  (line 159), rpm an integer
BelowMinTimes1_1(rpm, min_rpm) ==
    \/ 10 * rpm < 11 * min_rpm
    \/ (10 * rpm = 11 * min_rpm /\ Mul1_1RoundsUp(min_rpm))

\* abs(rpm - preferred_rpm) <= preferred_rpm * 0.1  (lines 152-153)
NearPreferred(rpm, preferred_rpm) ==
    10 * Abs(rpm - preferred_rpm) <= preferred_rpm

\* rpm > max_rpm * 0.9  (line 157)
AboveMaxTimes0_9(rpm, max_rpm) == 10 * rpm > 9 * max_rpm

RpmResult(s, m, l) == [status |-> s, message |-> m, limit |-> l]

\* the preferred band tested before the machine limits
get_rpm_status_GoodFirst(rpm, min_rpm, preferred_rpm, max_rpm) ==
    IF NearPreferred(rpm, preferred_rpm)
    THEN RpmResult("good", "near preferred", preferred_rpm)
    ELSE IF rpm < min_rpm THEN RpmResult("danger", "below minimum", min_rpm)
    ELSE IF rpm > max_rpm THEN RpmResult("danger", "above maximum", max_rpm)
    ELSE IF AboveMaxTimes0_9(rpm, max_rpm)
    THEN RpmResult("warning", "approaching maximum", NoLimit)
    ELSE IF BelowMinTimes1_1(rpm, min_rpm)
    THEN RpmResult("warning", "near minimum", NoLimit)
    ELSE RpmResult("info", "within safe range", NoLimit)

get_rpm_status(rpm, min_rpm, preferred_rpm, max_rpm) ==
    IF rpm < min_rpm THEN RpmResult("danger", "below minimum", min_rpm)
    ELSE IF rpm > max_rpm THEN RpmResult("danger", "above maximum", max_rpm)
    ELSE IF NearPreferred(rpm, preferred_rpm)
    THEN RpmResult("good", "near preferred", preferred_rpm)
    ELSE IF AboveMaxTimes0_9(rpm, max_rpm)
    THEN RpmResult("warning", "approaching maximum", NoLimit)
    ELSE IF BelowMinTimes1_1(rpm, min_rpm)
    THEN RpmResult("warning", "near minimum", NoLimit)
    ELSE RpmResult("info", "within safe range", NoLimit)

(***************************************************************************)
(* Lookup tables and unit constants (modules constants.machining,          *)
(* constants.units and the material table of MaterialBox; not in main.py)  *)
(***************************************************************************)
None == "none"

MATERIALS ==
    [aluminum |-> [kc |-> 800, sfm |-> 1000, smm |-> 305, chip_load |-> 50],
     steel    |-> [kc |-> 2000, sfm |-> 300, smm |-> 91, chip_load |-> 25]]

MaterialKeys == DOMAIN MATERIALS

MACHINE_RIGIDITY_FACTORS ==
    [rigid |-> [name |-> "Rigid", factor |-> 100],
     light |-> [name |-> "Light", factor |-> 50]]

\* what the rigidity selector can return; "custom" has no entry in the table
RigidityLevels == DOMAIN MACHINE_RIGIDITY_FACTORS \cup {"custom"}

\* sfm * FT_TO_M, FT_TO_M = 0.3048
SfmToSmm(sfm) == RoundDiv(sfm * 3048, 10000)

SmmToSfm(smm) == RoundDiv(smm * 10000, 3048)

\* micrometres * MM_TO_IN, in units of 1e-5 inch (MM_TO_IN = 1 / 25.4)
UmToInch5(um) == RoundDiv(um * 1000, 254)

Inch5ToUm(i) == RoundDiv(i * 254, 1000)

(***************************************************************************)
(* Values the user can enter in the widgets                                *)
(***************************************************************************)
DiameterVals == {6, 12}
FluteVals == {2, 4}
DocVals == {3, 30}
WocVals == {1, 6}
SurfaceSpeedVals == {150, 400}
FeedPerToothVals == {40, 60}
KcVals == {1500, 2000}
StickoutVals == {20, 80}
MinRpmVals == {1000, 5000}
PreferredRpmVals == {8000, 12000}
MaxRpmVals == {10000, 24000}
SpindlePowerVals == {2, 5}
CoatingVals == {"uncoated", "tialn"}

(***************************************************************************)
(* FeedsAndSpeeds.calculate (calculators.base; from the specification,     *)
(* section 4.1).  pi is taken as 22/7.                                     *)
(***************************************************************************)
ChipThinning(fs) == fs.chip_thinning_enabled /\ 2 * fs.woc < fs.diameter

EffectiveMmpt(fs) ==
    IF ChipThinning(fs) /\ fs.hsm_enabled
    THEN (fs.mmpt * fs.diameter * 10)
             \div (2 * ISqrt(100 * fs.woc * (fs.diameter - fs.woc)))
    ELSE fs.mmpt

RigidityWarnings(fs) ==
    IF fs.rigidity_level \in DOMAIN MACHINE_RIGIDITY_FACTORS
    THEN LET f == MACHINE_RIGIDITY_FACTORS[fs.rigidity_level].factor
         IN  (IF 100 * fs.doc > 2 * fs.diameter * f
              THEN <<"rigidity: depth of cut">> ELSE <<>>)
             \o (IF 100 * fs.woc > fs.diameter * f
                 THEN <<"rigidity: width of cut">> ELSE <<>>)
    ELSE <<"invalid config: rigidity level">>

MaterialWarnings(fs) ==
    IF fs.material_type \in MaterialKeys
       /\ 10 * fs.smm > 12 * MATERIALS[fs.material_type].smm
    THEN <<"material: surface speed">> ELSE <<>>

calculate(fs) ==
    LET rpm  == (fs.smm * 7000) \div (22 * fs.diameter)
        feed == (rpm * fs.flute_num * EffectiveMmpt(fs)) \div 1000
        mrr  == fs.doc * fs.woc * feed
    IN  [rpm |-> rpm, feed |-> feed, mrr |-> mrr,
         power |-> ((mrr \div 1000) * fs.kc) \div 60,
         warnings |->
             (IF ChipThinning(fs) /\ ~fs.hsm_enabled
              THEN <<"chip thinning: thin chips">> ELSE <<>>)
             \o (IF fs.hsm_enabled /\ fs.tool_stickout > 4 * fs.diameter
                 THEN <<"hsm: tool stickout">> ELSE <<>>)
             \o RigidityWarnings(fs)
             \o MaterialWarnings(fs)]

(***************************************************************************)
(* validate_machining_parameters (formulas.validation; from the            *)
(* specification, section 4.2)                                             *)
(***************************************************************************)
validate_machining_parameters(rpm, feed, doc, woc, diameter) ==
    (IF 10 * woc >= 9 * diameter THEN <<"validation: full slot">> ELSE <<>>)
    \o (IF 20 * woc <= diameter THEN <<"validation: engagement">> ELSE <<>>)
    \o (IF feed > 150 * diameter THEN <<"validation: feed">> ELSE <<>>)
    \o (IF doc > 2 * diameter THEN <<"validation: depth of cut">> ELSE <<>>)

(***************************************************************************)
(* The window.  g is the record of the widget boxes and of the bookkeeping *)
(* counters:                                                               *)
(*   tool_box      toolDiameter (mm), fluteNum, metric (is_metric())       *)
(*   cutting_box   DOC, WOC, stickout (mm), surface_speed, feed_per_tooth  *)
(*                 (display units), Kc, hsm, chip_thinning                 *)
(*   material_box  current_material, coating, materialInfo (text), style   *)
(*   machine_box   rigidity, minRPM, preferredRPM, maxRPM, spindlePower    *)
(*   results_box   the arguments of the last update_dashboard_values call  *)
(*   engines       number of FeedsAndSpeeds instances created so far       *)
(*   runs          one record per run of update inside the current handler *)
(***************************************************************************)
Gui(tb, cb, mb, xb, rb, e, r) ==
    [tool_box |-> tb, cutting_box |-> cb, material_box |-> mb,
     machine_box |-> xb, results_box |-> rb, engines |-> e, runs |-> r]

\* the label text is a sequence of pieces
InfoPiece(m) == [t |-> "info", m |-> m, ws |-> <<>>]

SepPiece == [t |-> "sep", m |-> None, ws |-> <<>>]

WarnPiece(ws) == [t |-> "warn", m |-> None, ws |-> ws]

\* current_info.startswith(warning sign)  (line 230)
StartsWithWarning(text) == Len(text) > 0 /\ text[1].t = "warn"

\* lines 168-190: the input fields of the engine created by this run
Populate(g) ==
    [diameter   |-> g.tool_box.toolDiameter,
     flute_num  |-> g.tool_box.fluteNum,
     doc        |-> g.cutting_box.DOC,
     woc        |-> g.cutting_box.WOC,
     smm        |-> SfmToSmm(IF g.tool_box.metric
                             THEN SmmToSfm(g.cutting_box.surface_speed)
                             ELSE g.cutting_box.surface_speed),
     mmpt       |-> IF g.tool_box.metric
                    THEN g.cutting_box.feed_per_tooth
                    ELSE Inch5ToUm(g.cutting_box.feed_per_tooth),
     kc         |-> g.cutting_box.Kc,
     hsm_enabled |-> g.cutting_box.hsm,
     chip_thinning_enabled |-> g.cutting_box.chip_thinning,
     tool_stickout  |-> g.cutting_box.stickout,
     rigidity_level |-> g.machine_box.rigidity,
     material_type  |-> g.material_box.current_material]

\* line 196 with depth and width of cut exchanged
ValidatorArgs_Raw(fs, calc) ==
    <<calc.rpm, calc.feed, fs.woc, fs.doc, fs.diameter>>

\* line 196: the arguments given to the validator
ValidatorArgs(fs, calc) ==
    <<calc.rpm, calc.feed, fs.doc, fs.woc, fs.diameter>>

\* line 197
all_warnings(calculation_warnings, validation_warnings) ==
    calculation_warnings \o validation_warnings

\* all_warnings[:3]  (line 224)
FirstThree(ws) == SubSeq(ws, 1, Min2(3, Len(ws)))

\* the dashboard given only the warnings the label shows
DashboardWarnings_Shown(ws) == FirstThree(ws)

\* the warning list handed over at line 220
DashboardWarnings(ws) == ws

\* lines 203-220: the arguments of update_dashboard_values
DashArgs(g, fs, calc, status, ws) ==
    [rpm |-> calc.rpm, feed |-> calc.feed, mrr |-> calc.mrr,
     power |-> calc.power,
     rpm_status  |-> status.status,
     rpm_message |-> <<status.message, status.limit>>,
     machine_limits |-> <<g.machine_box.minRPM, g.machine_box.preferredRPM,
                          g.machine_box.maxRPM>>,
     spindle_capacity |-> g.machine_box.spindlePower,
     material_info |-> g.material_box.current_material,
     all_warnings  |-> DashboardWarnings(ws),
     rigidity_info |-> <<fs.rigidity_level,
                         MACHINE_RIGIDITY_FACTORS[fs.rigidity_level].name>>]

\* lines 222-234: the material-info label
LabelAfter(mb, ws) ==
    IF ws # <<>>
    THEN IF mb.current_material # None /\ ~StartsWithWarning(mb.materialInfo)
         THEN [mb EXCEPT !.style = "warning",
                         !.materialInfo = @ \o <<SepPiece, WarnPiece(FirstThree(ws))>>]
         ELSE [mb EXCEPT !.style = "warning"]
    ELSE [mb EXCEPT !.style = "normal"]

\* the steps of update, in the order of its statements
UpdateSteps ==
    <<"populate", "calculate", "validate", "concat", "classify", "display",
      "label">>

\* one engine made by the first run and used again by the later ones
EnginesAfter_Shared(n) == IF n = 0 THEN 1 ELSE n

\* line 166: fs = FeedsAndSpeeds(), a new instance in every run
EnginesAfter(n) == n + 1

\* GUI.update (lines 165-234).  Line 217 raises KeyError when the rigidity
\* level has no entry in the table: the run ends there, before line 220.
update(g) ==
    LET fs     == Populate(g)
        calc   == calculate(fs)
        vargs  == ValidatorArgs(fs, calc)
        valw   == validate_machining_parameters(vargs[1], vargs[2], vargs[3],
                                                vargs[4], vargs[5])
        allw   == all_warnings(calc.warnings, valw)
        status == get_rpm_status(calc.rpm, g.machine_box.minRPM,
                                 g.machine_box.preferredRPM,
                                 g.machine_box.maxRPM)
        miss   == fs.rigidity_level \notin DOMAIN MACHINE_RIGIDITY_FACTORS
        mbNew  == LabelAfter(g.material_box, allw)
        run    == [engine |-> EnginesAfter(g.engines),
                   read   |-> [Kc |-> g.cutting_box.Kc,
                               surface_speed  |-> g.cutting_box.surface_speed,
                               feed_per_tooth |-> g.cutting_box.feed_per_tooth,
                               metric |-> g.tool_box.metric],
                   fs |-> fs, calc |-> calc, vargs |-> vargs, valw |-> valw,
                   allw |-> allw, classified |-> calc.rpm, status |-> status,
                   steps |-> IF miss THEN SubSeq(UpdateSteps, 1, 5)
                             ELSE UpdateSteps,
                   appended |-> ~miss /\ mbNew.materialInfo # g.material_box.materialInfo]
    IN  IF miss
        THEN [g EXCEPT !.engines = EnginesAfter(@), !.runs = Append(@, run)]
        ELSE [g EXCEPT !.engines = EnginesAfter(@), !.runs = Append(@, run),
                       !.results_box = DashArgs(g, fs, calc, status, allw),
                       !.material_box = mbNew]

(***************************************************************************)
(* Signal handlers                                                         *)
(***************************************************************************)
\* QAbstractSpinBox.setValue with signals enabled on a widget connected to
\* update (lines 67-72): valueChanged is emitted only when the value changes
SetKc(g, kc) ==
    IF kc = g.cutting_box.Kc THEN g
    ELSE update([g EXCEPT !.cutting_box.Kc = kc])

\* lines 99-104: signals blocked
SetSurfaceSpeedBlocked(g, sfm, smm) ==
    [g EXCEPT !.cutting_box.surface_speed =
                  IF g.tool_box.metric THEN smm ELSE sfm]

\* lines 108-113: signals blocked
SetFeedPerToothBlocked(g, chip_load) ==
    [g EXCEPT !.cutting_box.feed_per_tooth =
                  IF g.tool_box.metric THEN chip_load ELSE UmToInch5(chip_load)]

\* GUI.on_material_changed (lines 93-119)
on_material_changed(g, kc, sfm, smm, chip_load) ==
    update(SetFeedPerToothBlocked(
               SetSurfaceSpeedBlocked(SetKc(g, kc), sfm, smm),
               chip_load))

\* CuttingBox.update_units, called at line 127 after ToolBox.on_unit_changed
\* (line 76) has switched the unit system: the displayed surface speed and
\* feed per tooth are converted when the system changes
update_units(cb, wasMetric, isMetric) ==
    IF wasMetric = isMetric THEN cb
    ELSE IF isMetric
    THEN [cb EXCEPT !.surface_speed = SfmToSmm(@), !.feed_per_tooth = Inch5ToUm(@)]
    ELSE [cb EXCEPT !.surface_speed = SmmToSfm(@), !.feed_per_tooth = UmToInch5(@)]

\* GUI.on_unit_changed (lines 121-130)
on_unit_changed(g, isMetric) ==
    update([g EXCEPT !.tool_box.metric = isMetric,
                     !.cutting_box = update_units(@, g.tool_box.metric, isMetric)])

\* CuttingBox.init (lines 86, 90): the width of cut is kept within the tool
\* diameter (woc <= diameter); a value it changes is announced by WOC's
\* valueChanged, which line 69 connects to update
cutting_box_init(g) ==
    IF g.cutting_box.WOC > g.tool_box.toolDiameter
    THEN update([g EXCEPT !.cutting_box.WOC = g.tool_box.toolDiameter])
    ELSE g

\* the widgets as built by lines 50-55, before the first update
Constructed ==
    Gui([toolDiameter |-> 12, fluteNum |-> 2, metric |-> TRUE],
        [DOC |-> 3, WOC |-> 1, stickout |-> 20, surface_speed |-> 150,
         feed_per_tooth |-> 40, Kc |-> 1500, hsm |-> FALSE,
         chip_thinning |-> TRUE],
        [current_material |-> None, coating |-> "uncoated",
         materialInfo |-> <<>>, style |-> "normal"],
        [rigidity |-> "rigid", minRPM |-> 1000, preferredRPM |-> 12000,
         maxRPM |-> 24000, spindlePower |-> 2],
        [rpm |-> None], 0, <<>>)

\* the window at the start of a handler: no run of update yet in this handler
Cur ==
    Gui(tool_box, cutting_box, material_box, machine_box, results_box,
        engines, <<>>)

\* the window as a handler leaves it
Leave(g) ==
    /\ nEvents < MaxEvents
    /\ nEvents' = nEvents + 1
    /\ tool_box' = g.tool_box
    /\ cutting_box' = g.cutting_box
    /\ material_box' = g.material_box
    /\ machine_box' = g.machine_box
    /\ results_box' = g.results_box
    /\ engines' = g.engines
    /\ runs' = g.runs
    /\ UNCHANGED clsVars

\* GUI.__init__ (lines 18-87): cutting_box.init() and the first update
GuiInit ==
    LET g == update(cutting_box_init(Constructed))
    IN  /\ tool_box = g.tool_box
        /\ cutting_box = g.cutting_box
        /\ material_box = g.material_box
        /\ machine_box = g.machine_box
        /\ results_box = g.results_box
        /\ engines = g.engines
        /\ runs = g.runs
        /\ nEvents = 0

\* line 67
FluteNumChanged ==
    \E v \in FluteVals \ {tool_box.fluteNum} :
        Leave(update([Cur EXCEPT !.tool_box.fluteNum = v]))

\* line 68
DOCChanged ==
    \E v \in DocVals \ {cutting_box.DOC} :
        Leave(update([Cur EXCEPT !.cutting_box.DOC = v]))

\* line 69
WOCChanged ==
    \E v \in WocVals \ {cutting_box.WOC} :
        Leave(update([Cur EXCEPT !.cutting_box.WOC = v]))

\* line 70
SurfaceSpeedChanged ==
    \E v \in SurfaceSpeedVals \ {cutting_box.surface_speed} :
        Leave(update([Cur EXCEPT !.cutting_box.surface_speed = v]))

\* line 71
FeedPerToothChanged ==
    \E v \in FeedPerToothVals \ {cutting_box.feed_per_tooth} :
        Leave(update([Cur EXCEPT !.cutting_box.feed_per_tooth = v]))

\* line 72: the user edits Kc
KcChanged ==
    \E v \in KcVals \ {cutting_box.Kc} : Leave(SetKc(Cur, v))

\* lines 73, 89-91: GUI.toolDiameterChanged
toolDiameterChanged ==
    \E v \in DiameterVals \ {tool_box.toolDiameter} :
        Leave(update(cutting_box_init([Cur EXCEPT !.tool_box.toolDiameter = v])))

\* lines 76-77: a click on either unit button, also on the selected one
UnitButtonClicked ==
    /\ nEvents < MaxEvents
    /\ \E m \in BOOLEAN : Leave(on_unit_changed(Cur, m))

\* line 80: MaterialBox records the selection, shows the material's
\* description and emits materialChanged
MaterialSelected ==
    \E k \in MaterialKeys \ {material_box.current_material} :
        Leave(on_material_changed(
                  [Cur EXCEPT !.material_box.current_material = k,
                              !.material_box.materialInfo = <<InfoPiece(k)>>],
                  MATERIALS[k].kc, MATERIALS[k].sfm, MATERIALS[k].smm,
                  MATERIALS[k].chip_load))

\* line 81
CoatingChanged ==
    \E c \in CoatingVals \ {material_box.coating} :
        Leave(update([Cur EXCEPT !.material_box.coating = c]))

\* line 84
RigidityChanged ==
    \E r \in RigidityLevels \ {machine_box.rigidity} :
        Leave(update([Cur EXCEPT !.machine_box.rigidity = r]))

\* The widgets below are read by update (lines 141-143, 180-182, 204-208)
\* but lines 66-84 connect none of their signals.
HsmToggled ==
    \E v \in BOOLEAN \ {cutting_box.hsm} :
        Leave([Cur EXCEPT !.cutting_box.hsm = v])

ChipThinningToggled ==
    \E v \in BOOLEAN \ {cutting_box.chip_thinning} :
        Leave([Cur EXCEPT !.cutting_box.chip_thinning = v])

StickoutChanged ==
    \E v \in StickoutVals \ {cutting_box.stickout} :
        Leave([Cur EXCEPT !.cutting_box.stickout = v])

MinRPMChanged ==
    \E v \in MinRpmVals \ {machine_box.minRPM} :
        Leave([Cur EXCEPT !.machine_box.minRPM = v])

PreferredRPMChanged ==
    \E v \in PreferredRpmVals \ {machine_box.preferredRPM} :
        Leave([Cur EXCEPT !.machine_box.preferredRPM = v])

MaxRPMChanged ==
    \E v \in MaxRpmVals \ {machine_box.maxRPM} :
        Leave([Cur EXCEPT !.machine_box.maxRPM = v])

SpindlePowerChanged ==
    \E v \in SpindlePowerVals \ {machine_box.spindlePower} :
        Leave([Cur EXCEPT !.machine_box.spindlePower = v])

(***************************************************************************)
(* The classifier on its own: get_rpm_status applied to chosen readings    *)
(***************************************************************************)
ClsRpmVals ==
    {50, 100, 109, 110, 111, 500, 900, 950, 1000, 1050, 1100, 1101, 1800,
     1801, 1900, 2000, 2001, 5000, 9000, 9500, 11000, 11001, 18000, 18001,
     19000, 19500, 20000, 22000, 25000}

ClsMinVals == {100, 1000}

ClsPreferredVals == {1000, 10000, 20000}

ClsMaxVals == {2000, 20000}

ClsInputs ==
    [rpm : ClsRpmVals, min_rpm : ClsMinVals, preferred_rpm : ClsPreferredVals,
     max_rpm : ClsMaxVals]

NoResult == RpmResult(None, None, NoLimit)

ClsIdle ==
    /\ c_in = [rpm |-> 5000, min_rpm |-> 1000, preferred_rpm |-> 10000,
               max_rpm |-> 20000]
    /\ c_res = NoResult

Classify ==
    /\ c_res = NoResult
    /\ c_res' = get_rpm_status(c_in.rpm, c_in.min_rpm, c_in.preferred_rpm,
                               c_in.max_rpm)
    /\ UNCHANGED <<c_in, guiVars>>

NewReading ==
    /\ c_res # NoResult
    /\ c_in' \in ClsInputs
    /\ c_res' = NoResult
    /\ UNCHANGED guiVars

(***************************************************************************)
(* Specifications                                                          *)
(***************************************************************************)
Init == GuiInit /\ ClsIdle

Next ==
    \/ FluteNumChanged
    \/ DOCChanged
    \/ WOCChanged
    \/ SurfaceSpeedChanged
    \/ FeedPerToothChanged
    \/ KcChanged
    \/ toolDiameterChanged
    \/ UnitButtonClicked
    \/ MaterialSelected
    \/ CoatingChanged
    \/ RigidityChanged
    \/ HsmToggled
    \/ ChipThinningToggled
    \/ StickoutChanged
    \/ MinRPMChanged
    \/ PreferredRPMChanged
    \/ MaxRPMChanged
    \/ SpindlePowerChanged

Spec == Init /\ [][Next]_vars

InitStatus == GuiInit /\ c_in \in ClsInputs /\ c_res = NoResult

NextStatus == Classify \/ NewReading

SpecStatus == InitStatus /\ [][NextStatus]_vars

(***************************************************************************)
(* Properties                                                              *)
(***************************************************************************)
InLimits(in) == in.min_rpm <= in.rpm /\ in.rpm <= in.max_rpm

\* the ordered rule list of the classifier, in exact arithmetic
RuleList(in) ==
    IF in.rpm < in.min_rpm THEN <<"danger", "below minimum">>
    ELSE IF in.rpm > in.max_rpm THEN <<"danger", "above maximum">>
    ELSE IF 10 * Abs(in.rpm - in.preferred_rpm) <= in.preferred_rpm
    THEN <<"good", "near preferred">>
    ELSE IF 10 * in.rpm > 9 * in.max_rpm
    THEN <<"warning", "approaching maximum">>
    ELSE IF 10 * in.rpm < 11 * in.min_rpm THEN <<"warning", "near minimum">>
    ELSE <<"info", "within safe range">>

\* C1: for every rpm and limits get_rpm_status returns the status and message
\* of the first matching rule of the list danger/below minimum, danger/above
\* maximum, good/near preferred (within 10% of preferred), warning/approaching
\* maximum (above 0.90*max), warning/near minimum (below 1.10*min), info.
C1_FirstMatchingRule ==
    c_res # NoResult => <<c_res.status, c_res.message>> = RuleList(c_in)

\* C9: the result is danger exactly when rpm is below min_rpm or above
\* max_rpm, whatever preferred_rpm is.
C9_DangerIffOutsideLimits ==
    c_res # NoResult => (c_res.status = "danger" <=> ~InLimits(c_in))

\* an rpm within 10% of preferred_rpm, outside the limits, classified
C9_Witness ==
    /\ c_res # NoResult
    /\ NearPreferred(c_in.rpm, c_in.preferred_rpm)
    /\ ~InLimits(c_in)
    /\ c_res.status = "danger"

\* C10: rpm equal to min_rpm or max_rpm is not danger; rpm at exactly 10%
\* distance from preferred_rpm is good; rpm equal to 0.90*max_rpm is not
\* "approaching maximum" and rpm equal to 1.10*min_rpm is not "near minimum";
\* inside the limits the preferred band wins over both warnings.
C10_Boundaries ==
    c_res # NoResult =>
        /\ (c_in.rpm = c_in.min_rpm \/ c_in.rpm = c_in.max_rpm)
               => c_res.status # "danger"
        /\ (InLimits(c_in)
            /\ 10 * Abs(c_in.rpm - c_in.preferred_rpm) = c_in.preferred_rpm)
               => c_res.status = "good"
        /\ 10 * c_in.rpm = 9 * c_in.max_rpm
               => c_res.message # "approaching maximum"
        /\ 10 * c_in.rpm = 11 * c_in.min_rpm
               => c_res.message # "near minimum"
        /\ (InLimits(c_in)
            /\ 10 * Abs(c_in.rpm - c_in.preferred_rpm) <= c_in.preferred_rpm
            /\ (10 * c_in.rpm > 9 * c_in.max_rpm
                \/ 10 * c_in.rpm < 11 * c_in.min_rpm))
               => c_res.status = "good"

Displays(r) == \E j \in 1..Len(r.steps) : r.steps[j] = "display"

\* C2: in every run of update the engine is populated, then calculate runs
\* once, then the validator runs once on the rpm and feed of that calculate
\* and the doc, woc and diameter given to the engine, then the warning list is
\* the engine's warnings followed by the validator's, then that rpm is
\* classified, and only after all of this the results display is updated.
C2_UpdateOrder ==
    \A i \in 1..Len(runs) :
        LET r == runs[i]
        IN  /\ Len(r.steps) >= 5
            /\ SubSeq(r.steps, 1, 5) =
                   <<"populate", "calculate", "validate", "concat", "classify">>
            /\ \A j \in 1..Len(r.steps) : r.steps[j] = "display" => j = 6
            /\ r.calc = calculate(r.fs)
            /\ r.vargs = <<r.calc.rpm, r.calc.feed, r.fs.doc, r.fs.woc,
                           r.fs.diameter>>
            /\ r.allw = r.calc.warnings \o r.valw
            /\ Len(r.allw) = Len(r.calc.warnings) + Len(r.valw)
            /\ r.classified = r.calc.rpm
            /\ (i = Len(runs) /\ Displays(r))
                   => /\ results_box.rpm = r.calc.rpm
                      /\ results_box.feed = r.calc.feed
                      /\ results_box.rpm_status = r.status.status

\* a completed run in which both the engine and the validator warned, with
\* a depth and a width of cut that differ
C2_Witness ==
    /\ runs # <<>>
    /\ Displays(runs[Len(runs)])
    /\ runs[Len(runs)].calc.warnings # <<>>
    /\ runs[Len(runs)].valw # <<>>
    /\ runs[Len(runs)].fs.doc # runs[Len(runs)].fs.woc

\* C3: the warning list handed to the results dashboard is the complete
\* concatenated list whatever its length; the block written to the
\* material-info label holds only the first 3 warnings, in their order.
C3_CompleteWarnings ==
    (runs # <<>> /\ Displays(runs[Len(runs)])) =>
        LET r    == runs[Len(runs)]
            text == material_box.materialInfo
        IN  /\ results_box.all_warnings = r.calc.warnings \o r.valw
            /\ r.appended =>
                   /\ Len(text) >= 2
                   /\ text[Len(text)].t = "warn"
                   /\ Len(text[Len(text)].ws) = Min2(3, Len(r.allw))
                   /\ \A k \in 1..Len(text[Len(text)].ws) :
                          text[Len(text)].ws[k] = r.allw[k]

\* more than 3 warnings: all of them on the dashboard, 3 in the label block
C3_Witness ==
    /\ runs # <<>>
    /\ Displays(runs[Len(runs)])
    /\ runs[Len(runs)].appended
    /\ Len(results_box.all_warnings) > 3
    /\ Len(material_box.materialInfo[Len(material_box.materialInfo)].ws) = 3

\* C4 as stated: one engine instance is created once for the lifetime of the
\* window, so the number of instances created stays 1 across updates.
C4_SingleEngine == engines = 1

\* C4 as amended: every run of update creates its own engine instance and
\* populates that one; the instances created grow by one per run of update.
C4_EnginePerUpdate ==
    [][/\ engines' = engines + Len(runs')
       /\ \A i \in 1..Len(runs') : runs'[i].engine = engines + i]_vars

\* a handler that ran update twice, after an earlier update
C4_Witness == engines >= 3 /\ Len(runs) = 2 /\ runs[2].engine = engines

\* C5: when the rigidity level is not a key of the rigidity table the rest
\* of update proceeds and the results display is updated with this run's
\* rpm, feed and warnings.
C5_MissStillDisplays ==
    \A i \in 1..Len(runs) :
        runs[i].fs.rigidity_level \notin DOMAIN MACHINE_RIGIDITY_FACTORS
            => /\ Displays(runs[i])
               /\ i = Len(runs) => /\ results_box.rpm = runs[i].calc.rpm
                                   /\ results_box.feed = runs[i].calc.feed
                                   /\ results_box.all_warnings = runs[i].allw

\* what update hands to the dashboard for the values the widgets hold now
ExpectedDash ==
    LET fs   == Populate(Cur)
        calc == calculate(fs)
    IN  DashArgs(Cur, fs, calc,
                 get_rpm_status(calc.rpm, machine_box.minRPM,
                                machine_box.preferredRPM, machine_box.maxRPM),
                 calc.warnings
                     \o validate_machining_parameters(calc.rpm, calc.feed,
                                                      fs.doc, fs.woc,
                                                      fs.diameter))

\* C6: after any change of a value that update reads, update has run and the
\* displayed results are those of the current input values (stated for the
\* rigidity levels of the table, where update runs to its end).
C6_DisplayFollowsInputs ==
    machine_box.rigidity \in DOMAIN MACHINE_RIGIDITY_FACTORS
        => results_box = ExpectedDash

\* the values update reads
InputsRead(tb, cb, mb, xb) ==
    <<Populate(Gui(tb, cb, mb, xb, results_box, engines, <<>>)),
      xb.minRPM, xb.preferredRPM, xb.maxRPM, xb.spindlePower>>

\* C7: a second run of update with unchanged inputs, right after a run of
\* update, leaves the whole displayed state as it was: same dashboard
\* values and warning list, same material-info text and style.
C7_RepeatedUpdateIdempotent ==
    [][(/\ runs # <<>>
        /\ Displays(runs[Len(runs)])
        /\ runs' # <<>>
        /\ engines' > engines
        /\ InputsRead(tool_box', cutting_box', material_box', machine_box')
               = InputsRead(tool_box, cutting_box, material_box, machine_box))
       => /\ results_box' = results_box
          /\ material_box'.materialInfo = material_box.materialInfo
          /\ material_box'.style = material_box.style]_vars

\* C8: every run of update inside on_material_changed reads Kc, surface
\* speed and feed per tooth of one material: a run that reads the new
\* material's Kc also reads its surface speed (smm in metric mode, sfm in
\* imperial mode) and its chip load; and the last run reads all three.
C8_ConsistentMaterialSnapshot ==
    [][material_box'.current_material # material_box.current_material =>
          LET m == MATERIALS[material_box'.current_material]
              New(r) ==
                  /\ r.surface_speed = IF r.metric THEN m.smm ELSE m.sfm
                  /\ r.feed_per_tooth =
                         IF r.metric THEN m.chip_load ELSE UmToInch5(m.chip_load)
          IN  /\ \A i \in 1..Len(runs') :
                     runs'[i].read.Kc = m.kc => New(runs'[i].read)
              /\ runs' # <<>>
              /\ runs'[Len(runs')].read.Kc = m.kc
              /\ New(runs'[Len(runs')].read)]_vars

====
